---- MODULE Spec2Model ----
(***************************************************************************)
(* Model of tools/google-sheets/main.py: the URL reconciliation run        *)
(* (main), the batched resolver (verify_urls / fetch_url), the             *)
(* canonicalizer (strip_tracking_params) and the comparator                *)
(* (compare_urls / normalize_url_path).                                    *)
(*                                                                         *)
(* A Python str is modelled as a sequence of symbols.  A symbol is either  *)
(* a single character (":", "/", "?", "#", "&", "=", " ", "+", "[", "]")   *)
(* or a token standing for a run of characters that none of the modelled   *)
(* string operations splits ("example.com", "utm_source", "web.archive.org")*)
(***************************************************************************)
EXTENDS Integers, Sequences, FiniteSets, TLC

\* ------------------------------------------------------------------------
\* Python str helpers
\* ------------------------------------------------------------------------

\* Python evaluates an expression once and binds the value to a name (an
\* argument, a local variable): F applied to the value of v
Bind(v, F(_)) == CHOOSE r \in {F(x) : x \in {v}} : TRUE

\* str.lower() on one symbol: the tokens of the model that contain capitals.
LowerSym(c) ==
    CASE c = "HTTPS" -> "https"
      [] c = "Example.com" -> "example.com"
      [] c = "Page" -> "page"
      [] c = "Old" -> "old"
      [] c = "Foo" -> "foo"
      [] c = "CL" -> "cl"
      [] c = "S" -> "s"
      [] c = "UTM_SOURCE" -> "utm_source"
      [] c = "hsCtaTracking" -> "hsctatracking"
      [] c = "HSCTATRACKING" -> "hsctatracking"
      [] c = "_BRANCH_match_id" -> "_branch_match_id"
      [] OTHER -> c

\* str.lower()
Lower(s) == [k \in 1..Len(s) |-> LowerSym(s[k])]

\* s[a:b] with 1-based inclusive bounds, empty when a > b
Slice(s, a, b) == IF a > b THEN << >> ELSE SubSeq(s, a, b)

\* str.find(c) for a one-symbol needle, 1-based; 0 when absent
Find(s, c) ==
    IF \E k \in 1..Len(s) : s[k] = c
    THEN CHOOSE k \in 1..Len(s) : s[k] = c /\ \A j \in 1..(k-1) : s[j] # c
    ELSE 0

\* str.rstrip(c)
RECURSIVE RStrip(_, _)
RStrip(s, c) ==
    IF s # << >> /\ s[Len(s)] = c
    THEN Bind(Slice(s, 1, Len(s) - 1), LAMBDA t : RStrip(t, c))
    ELSE s

\* str.lstrip() for whitespace
RECURSIVE LStripSpace(_)
LStripSpace(s) ==
    IF s # << >> /\ s[1] = " " THEN Bind(Tail(s), LStripSpace) ELSE s

\* str.strip()
strip(s) == Bind(RStrip(s, " "), LStripSpace)

\* str.endswith(suffix)
EndsWith(s, suffix) ==
    /\ Len(s) >= Len(suffix)
    /\ Slice(s, Len(s) - Len(suffix) + 1, Len(s)) = suffix

\* `needle in s` for a one-symbol needle
Contains(s, c) == \E k \in 1..Len(s) : s[k] = c

\* str.split(sep): the pieces between occurrences of the symbol sep
RECURSIVE Split(_, _)
Split(s, sep) ==
    LET k == Find(s, sep)
    IN  IF k = 0 THEN << s >>
        ELSE << Slice(s, 1, k - 1) >>
             \o Bind(Slice(s, k + 1, Len(s)), LAMBDA t : Split(t, sep))

\* sep.join(parts)
RECURSIVE Join(_, _)
Join(parts, sep) ==
    IF parts = << >> THEN << >>
    ELSE IF Len(parts) = 1 THEN parts[1]
    ELSE parts[1] \o << sep >> \o Bind(Tail(parts), LAMBDA t : Join(t, sep))

\* ------------------------------------------------------------------------
\* urllib.parse as used by the program
\* ------------------------------------------------------------------------

\* Tokens made only of scheme characters (letters, digits, "+", "-", ".")
\* and starting with a letter.
SchemeSyms == {"http", "https", "HTTPS", "bit.ly", "example.com", "Example.com",
               "other.org", "web.archive.org", "abc", "old", "Old", "new",
               "page", "Page", "cl", "s", "x"}

\* Index of the first of "/", "?", "#" in s at or after position from;
\* Len(s) + 1 when there is none (urllib's _splitnetloc).
SplitNetlocAt(s, from) ==
    LET D == {k \in from..Len(s) : s[k] \in {"/", "?", "#"}}
    IN  IF D = {} THEN Len(s) + 1 ELSE CHOOSE k \in D : \A j \in D : k <= j

\* urlparse(url): scheme, netloc, path, params, query, fragment, as the
\* steps of urlsplit, each handing the rest of the string to the next.
\* The alphabet has no ";" so params is always empty.  invalid stands for
\* the ValueError("Invalid IPv6 URL") urlsplit raises when the netloc has
\* one of "[", "]" without the other.

\* `if '?' in url: url, query = url.split('?', 1)`
UrlSplitQuery(scheme, netloc, invalid, fragment, u3) ==
    LET q == Find(u3, "?")
    IN  [scheme |-> scheme, netloc |-> netloc,
         path |-> IF q > 0 THEN Slice(u3, 1, q - 1) ELSE u3,
         params |-> << >>,
         query |-> IF q > 0 THEN Slice(u3, q + 1, Len(u3)) ELSE << >>,
         fragment |-> fragment,
         invalid |-> invalid]

\* `if allow_fragments and '#' in url: url, fragment = url.split('#', 1)`
UrlSplitFragment(scheme, netloc, invalid, u2) ==
    LET f == Find(u2, "#")
    IN  Bind(IF f > 0 THEN Slice(u2, 1, f - 1) ELSE u2,
             LAMBDA u3 : UrlSplitQuery(scheme, netloc, invalid,
                             IF f > 0 THEN Slice(u2, f + 1, Len(u2)) ELSE << >>,
                             u3))

\* `if url[:2] == '//': netloc, url = _splitnetloc(url, 2)` and the test
\* of the brackets
UrlSplitNetloc(scheme, u1) ==
    LET hasNetloc == Len(u1) >= 2 /\ u1[1] = "/" /\ u1[2] = "/"
        d == SplitNetlocAt(u1, 3)
    IN  IF hasNetloc
        THEN Bind(Slice(u1, d, Len(u1)),
                  LAMBDA u2 : UrlSplitFragment(scheme, Slice(u1, 3, d - 1),
                                  Contains(Slice(u1, 3, d - 1), "[")
                                      # Contains(Slice(u1, 3, d - 1), "]"),
                                  u2))
        ELSE UrlSplitFragment(scheme, << >>, FALSE, u1)

\* The scheme: what precedes the first ":" if it is made of scheme characters
UrlSplitScheme(u0) ==
    LET i == Find(u0, ":")
        hasScheme == /\ i > 1
                     /\ \A k \in 1..(i-1) : u0[k] \in SchemeSyms
    IN  IF hasScheme
        THEN Bind(Slice(u0, i + 1, Len(u0)),
                  LAMBDA u1 : UrlSplitNetloc(Lower(Slice(u0, 1, i - 1)), u1))
        ELSE UrlSplitNetloc(<< >>, u0)

urlparse(url) == Bind(LStripSpace(url), UrlSplitScheme)

\* Schemes of urllib's uses_netloc that occur in the model
UsesNetloc == {<<"http">>, <<"https">>}

\* urlunparse((scheme, netloc, path, params, query, fragment))
urlunparse(p) ==
    LET u0 == IF p.params # << >> THEN p.path \o <<";">> \o p.params ELSE p.path
        withNetloc ==
            \/ p.netloc # << >>
            \/ /\ p.scheme # << >>
               /\ p.scheme \in UsesNetloc
               /\ ~(Len(u0) >= 2 /\ u0[1] = "/" /\ u0[2] = "/")
        u1 == IF withNetloc
              THEN <<"/", "/">> \o p.netloc
                   \o (IF u0 # << >> /\ u0[1] # "/" THEN <<"/">> \o u0 ELSE u0)
              ELSE u0
        u2 == IF p.scheme # << >> THEN p.scheme \o <<":">> \o u1 ELSE u1
        u3 == IF p.query # << >> THEN u2 \o <<"?">> \o p.query ELSE u2
    IN  IF p.fragment # << >> THEN u3 \o <<"#">> \o p.fragment ELSE u3

\* unquote(s.replace('+', ' ')) on one symbol
UnquoteSym(c) ==
    CASE c = "+" -> " "
      [] c = "%2F" -> "/"
      [] c = "%3A" -> ":"
      [] c = "%3D" -> "="
      [] c = "%3F" -> "?"
      [] c = "%23" -> "#"
      [] c = "%5B" -> "["
      [] c = "%5D" -> "]"
      [] OTHER -> c

\* quote_plus on one symbol
QuoteSym(c) ==
    CASE c = " " -> "+"
      [] c = "/" -> "%2F"
      [] c = ":" -> "%3A"
      [] c = "=" -> "%3D"
      [] c = "?" -> "%3F"
      [] c = "+" -> "%2B"
      [] c = "#" -> "%23"
      [] c = "[" -> "%5B"
      [] c = "]" -> "%5D"
      [] OTHER -> c

UnquotePlus(s) == [k \in 1..Len(s) |-> UnquoteSym(s[k])]
QuotePlus(s) == [k \in 1..Len(s) |-> QuoteSym(s[k])]

\* parse_qsl(qs, keep_blank_values=True): the (name, value) pairs in order
RECURSIVE ParseFields(_)
ParseFields(fields) ==
    IF fields = << >> THEN << >>
    ELSE LET nv == Head(fields)
             e  == Find(nv, "=")
             name  == IF e = 0 THEN nv ELSE Slice(nv, 1, e - 1)
             value == IF e = 0 THEN << >> ELSE Slice(nv, e + 1, Len(nv))
         IN  IF nv = << >> THEN Bind(Tail(fields), ParseFields)
             ELSE << <<UnquotePlus(name), UnquotePlus(value)>> >>
                  \o Bind(Tail(fields), ParseFields)

parse_qsl(qs) == IF qs = << >> THEN << >> ELSE Bind(Split(qs, "&"), ParseFields)

\* parse_qs groups the pairs in a dict of lists; dict order is the order of
\* each key's first occurrence.  The grouped dict is kept as the sequence of
\* (key, value) pairs in the order urlencode(doseq=True) writes them.
RECURSIVE GroupByKey(_)
GroupByKey(pairs) ==
    IF pairs = << >> THEN << >>
    ELSE LET k == pairs[1][1]
         IN  SelectSeq(pairs, LAMBDA p : p[1] = k)
             \o Bind(SelectSeq(pairs, LAMBDA p : p[1] # k), GroupByKey)

parse_qs(qs) == Bind(parse_qsl(qs), GroupByKey)

\* urlencode(query_dict, doseq=True)
RECURSIVE EncodePairs(_)
EncodePairs(pairs) ==
    IF pairs = << >> THEN << >>
    ELSE << QuotePlus(pairs[1][1]) \o <<"=">> \o QuotePlus(pairs[1][2]) >>
         \o Bind(Tail(pairs), EncodePairs)

urlencode(pairs) == Bind(EncodePairs(pairs), LAMBDA parts : Join(parts, "&"))

\* ------------------------------------------------------------------------
\* Canonicalizer
\* ------------------------------------------------------------------------

\* The tracking_params set literal, each key one token
tracking_params ==
    {"utm_source", "utm_medium", "utm_campaign", "utm_term", "utm_content",
     "fbclid", "gclid", "_ga", "ref", "source", "campaign", "medium",
     "ref_src", "ref_url", "ref_map", "ref_type", "ref_id", "ref_content",
     "_hsenc", "_hsmi", "mc_cid", "mc_eid", "ml_subscriber", "ml_subscriber_hash",
     "s", "t", "twclid",
     "share", "action", "feature", "tracking", "tracked", "debug",
     "dm_i", "eh", "sa", "ved", "ei", "url", "src", "source_id", "sourceid",
     "_ke", "hsCtaTracking", "hash", "_branch_match_id"}

\* k.lower() not in tracking_params
IsTrackingKey(k) == Len(k) = 1 /\ LowerSym(k[1]) \in tracking_params

\* strip_tracking_params(url); a ValueError of urlparse is caught and the
\* url returned as it came
strip_tracking_params(url) ==
    IF url = << >> THEN url
    ELSE Bind(urlparse(url), LAMBDA parsed :
         IF parsed.invalid THEN url
         ELSE Bind(parse_qs(parsed.query), LAMBDA query_dict :
              Bind(SelectSeq(query_dict, LAMBDA p : ~IsTrackingKey(p[1])), LAMBDA filtered_query :
              Bind(urlencode(filtered_query), LAMBDA new_query :
              Bind(urlunparse([parsed EXCEPT !.query = new_query]), LAMBDA clean_url :
              RStrip(clean_url, "/"))))))

\* ------------------------------------------------------------------------
\* Path normalization
\* ------------------------------------------------------------------------

\* normalize_url_path that strips every trailing /cl/s
RECURSIVE normalize_url_path_all(_)
normalize_url_path_all(path) ==
    Bind(RStrip(path, "/"), LAMBDA p :
        IF EndsWith(p, <<"/", "cl", "/", "s">>)
        THEN Bind(Slice(p, 1, Len(p) - 4), normalize_url_path_all)
        ELSE p)

\* normalize_url_path(path)
normalize_url_path(path) ==
    Bind(RStrip(path, "/"), LAMBDA p :
        IF EndsWith(p, <<"/", "cl", "/", "s">>)
        THEN Slice(p, 1, Len(p) - 4)
        ELSE p)

\* ------------------------------------------------------------------------
\* Comparator
\* ------------------------------------------------------------------------

\* The comparison of lines 178-187 on the two parse results
CompareParsed(parsed1, parsed2, path1, path2) ==
    IF parsed1.netloc # parsed2.netloc
    THEN [raised |-> FALSE, matches |-> FALSE, details |-> "Different domains"]
    ELSE IF Lower(path1) # Lower(path2)
    THEN [raised |-> FALSE, matches |-> FALSE, details |-> "Different paths"]
    ELSE [raised |-> FALSE, matches |-> TRUE, details |-> "URLs match"]

\* compare_urls that compares the hosts ignoring case
compare_urls_lower_host(url1, url2) ==
    Bind(urlparse(url1), LAMBDA parsed1 :
    Bind(urlparse(url2), LAMBDA parsed2 :
        IF parsed1.invalid \/ parsed2.invalid
        THEN [raised |-> TRUE, matches |-> FALSE, details |-> "ValueError"]
        ELSE Bind(normalize_url_path(parsed1.path), LAMBDA path1 :
             Bind(normalize_url_path(parsed2.path), LAMBDA path2 :
                 CompareParsed([parsed1 EXCEPT !.netloc = Lower(@)],
                               [parsed2 EXCEPT !.netloc = Lower(@)],
                               path1, path2)))))

\* compare_urls(url1, url2): (matches, details).  The function has no
\* try/except: raised stands for the ValueError of urlparse leaving it, and
\* then there is no return value.
compare_urls(url1, url2) ==
    Bind(urlparse(url1), LAMBDA parsed1 :
    Bind(urlparse(url2), LAMBDA parsed2 :
        IF parsed1.invalid \/ parsed2.invalid
        THEN [raised |-> TRUE, matches |-> FALSE, details |-> "ValueError"]
        ELSE Bind(normalize_url_path(parsed1.path), LAMBDA path1 :
             Bind(normalize_url_path(parsed2.path), LAMBDA path2 :
                 CompareParsed(parsed1, parsed2, path1, path2)))))

\* ------------------------------------------------------------------------
\* Inputs of a run
\* ------------------------------------------------------------------------

\* batch_size and the TCPConnector limit.  The program's values are 50 and
\* 10; the model keeps their order (limit < batch_size) at a scale at which
\* a run spans more than one batch and a batch holds more fetches than the
\* connector admits at once.
batch_size == 2
limit == 1

\* The largest id of the id column, and the rows drawn per worksheet: one
\* more than a batch holds, so that the last row falls in a second batch.
MaxId == 2
MaxRows == batch_size + 1

\* Cells of the url column: an empty cell, a whitespace-only cell, a
\* shortened URL (sheet 1) and a long URL (sheet 2).
Blank == << >>
White == << " " >>
ShortUrl == <<"http", ":", "/", "/", "bit.ly", "/", "abc">>
LongUrl == <<"https", ":", "/", "/", "example.com", "/", "old">>

\* Final URLs a server may redirect to
PageTracked == <<"https", ":", "/", "/", "example.com", "/", "page", "/",
                 "?", "utm_source", "=", "x">>
PageUpper == <<"https", ":", "/", "/", "example.com", "/", "Page">>
Archived == <<"https", ":", "/", "/", "web.archive.org", "/", "old">>

\* A URL whose GET is answered with status 404 after a redirect, and a cell
\* that urlparse rejects (and for which session.get raises before any request)
GoneUrl == <<"https", ":", "/", "/", "example.com", "/", "gone">>
BadUrl == <<"http", ":", "/", "/", "[", "bad">>

\* The network: the final URLs (response.url) a GET of url may end at
Redirects(url) ==
    IF url = ShortUrl THEN {PageTracked}
    ELSE IF url = LongUrl THEN {PageUpper, Archived}
    ELSE IF url = GoneUrl THEN {PageTracked}
    ELSE IF url = BadUrl THEN {}
    ELSE {url}

\* The network: the status (response.status) of the final response
Statuses(url) == IF url = GoneUrl THEN {404} ELSE {200}

\* No response: the status recorded for a GET that ended in an exception
NoResponse == 0

Urls1 == {Blank, ShortUrl}
Urls2 == {White, LongUrl}

\* A cell of the id column: a number, or text that pd.to_numeric coerces to NaN
NaN == 0
IdCells == 0..MaxId

SeqsUpTo(S, n) == UNION {[1..k -> S] : k \in 0..n}

\* The two columns of a worksheet as rows (id cell, url cell)
RawSheets(urls) == SeqsUpTo([id : IdCells, url : urls], MaxRows)

\* ------------------------------------------------------------------------
\* pandas helpers
\* ------------------------------------------------------------------------

IsSortedById(df) == \A k \in 1..(Len(df) - 1) : df[k].id <= df[k + 1].id

Bijections(n) == {f \in [1..n -> 1..n] : \A a, b \in 1..n : f[a] = f[b] => a = b}

\* df.sort_values('id'): the default sort is not stable, so rows with equal
\* ids may come out in any order.
sort_values(df) ==
    {s \in {[k \in 1..Len(df) |-> df[f[k]]] : f \in Bijections(Len(df))} :
        IsSortedById(s)}

\* DataFrame({...}).dropna(): rows whose id is NaN are dropped
dropna(df) == SelectSeq(df, LAMBDA r : r.id # NaN)

\* load_sheet_data(gc, config): the frames it may return for the raw rows
load_sheet_data(raw) == sort_values(dropna(raw))

\* set(df['id'])
IdSet(df) == {df[k].id : k \in 1..Len(df)}

\* df[df['id'].isin(ids)]
isin(df, ids) == SelectSeq(df, LAMBDA r : r.id \in ids)

\* df['url'].tolist()
UrlList(df) == [k \in 1..Len(df) |-> df[k].url]

\* The ids of either sheet: union in place of intersection
CommonIdsUnion(a, b) == IdSet(a) \cup IdSet(b)

\* set(df1['id']).intersection(set(df2['id']))
CommonIds(a, b) == IdSet(a) \cap IdSet(b)

\* `if common_ids is None`: never true of a set
NoCommonIdsNever(c) == FALSE

\* `if not common_ids`
NoCommonIds(c) == c = {}

\* ------------------------------------------------------------------------
\* Resolver helpers
\* ------------------------------------------------------------------------

\* fetch_url whose except clauses return nothing
fetch_url_none(url, outcome, status, final) ==
    IF url = << >> THEN url
    ELSE IF outcome = "ok" THEN final
    ELSE << >>

\* fetch_url that treats a status other than 200 like an exception
fetch_url_raise_for_status(url, outcome, status, final) ==
    IF url = << >> THEN url
    ELSE IF outcome = "ok" /\ status = 200 THEN final
    ELSE url

\* `if not url or not isinstance(url, str)`
InvalidUrl(url) == url = << >>

\* fetch_url(session, url): the value returned when the GET ends with
\* outcome "ok" and a response of that status at response.url = final, or
\* with "timeout" or "error".  `if response.status != 200` only logs a
\* warning, so status decides nothing.
fetch_url(url, outcome, status, final) ==
    IF InvalidUrl(url) THEN url
    ELSE IF outcome = "ok" THEN final
    ELSE url

\* The coroutines [fetch_url(session, url) for url in batch if url.strip()]
\* for urls[lo..hi]; src is the position of the url in the whole list,
\* batch the number of the loop iteration and failed whether the fetch ended
\* in one of the except clauses (all three kept for the properties).
RECURSIVE MakeTasks(_, _, _, _, _)
MakeTasks(urls, lo, hi, st, b) ==
    IF lo > hi THEN << >>
    ELSE (IF strip(urls[lo]) # << >>
          THEN << [url |-> urls[lo], src |-> lo, batch |-> b, state |-> st,
                   failed |-> FALSE, result |-> << >>] >>
          ELSE << >>)
         \o MakeTasks(urls, lo + 1, hi, st, b)

Min(a, b) == IF a < b THEN a ELSE b

\* urls[i:i + batch_size] as the index range lo..hi (Python clamps the slice)
SliceLo(ofs) == ofs + 1
SliceHi(urls, ofs) == Min(ofs + batch_size, Len(urls))

\* Connections the connector has handed out
OpenCount(ts) == Cardinality({k \in 1..Len(ts) : ts[k].state = "open"})

\* A session built without the connector: aiohttp's default limit of 100
CanAcquireDefault(n) == n < 100

\* TCPConnector(limit=10): a request gets a connection only while fewer
\* than limit are handed out
CanAcquire(n) == n < limit

\* A gather that does not wait for its tasks
GatherReadyNoWait(ts) == TRUE

\* A gather that returns as soon as one task has returned
GatherReadyFirst(ts) == \E k \in 1..Len(ts) : ts[k].state = "done"

\* asyncio.gather(*tasks) returns once every task has returned
GatherReady(ts) == \A k \in 1..Len(ts) : ts[k].state = "done"

\* asyncio.gather(*tasks) schedules every coroutine it is given
Schedule(ts) == [k \in 1..Len(ts) |-> [ts[k] EXCEPT !.state = "waiting"]]

\* The list gather returns: the tasks' values in argument order
GatherValues(ts) == [k \in 1..Len(ts) |-> ts[k].result]
GatherSrcs(ts) == [k \in 1..Len(ts) |-> ts[k].src]

\* zip(a, b): pairs up to the shorter length
Zip(a, b) == [k \in 1..Min(Len(a), Len(b)) |-> << a[k], b[k] >>]

\* results.extend with the canonicalizer applied to both lists
ResultPairsBoth(shorts, longs) ==
    Zip([k \in 1..Len(shorts) |-> strip_tracking_params(shorts[k])],
        [k \in 1..Len(longs) |-> strip_tracking_params(longs[k])])

\* zip([strip_tracking_params(url) for url in short_results], long_results)
ResultPairs(shorts, longs) ==
    Zip([k \in 1..Len(shorts) |-> strip_tracking_params(shorts[k])], longs)

\* The identity of a fetch, for the history variables
FetchId(list, t) == [list |-> list, src |-> t.src, batch |-> t.batch]
FetchIds(list, ts) == {FetchId(list, ts[k]) : k \in 1..Len(ts)}

\* `'web.archive.org' in verified_url2`
IsArchive(url) == Contains(url, "web.archive.org")

\* The body of `for i, (verified_url1, verified_url2) in enumerate(results)`:
\* the mismatches appended from position k on.  pos (the position in results)
\* is kept for the properties; the program's dict has id, url1, url2, details.
\* An exception leaving compare_urls ends the loop at that position.
RECURSIVE Mismatches(_, _, _)
Mismatches(res, frame, k) ==
    IF k > Len(res) THEN << >>
    ELSE LET verified_url1 == res[k][1]
             verified_url2 == res[k][2]
         IN  IF IsArchive(verified_url2) THEN Mismatches(res, frame, k + 1)
             ELSE Bind(compare_urls(verified_url1, verified_url2), LAMBDA c :
                  IF c.raised THEN << >>
                  ELSE IF ~c.matches
                  THEN << [id |-> frame[k].id, url1 |-> verified_url1,
                           url2 |-> verified_url2, details |-> c.details,
                           pos |-> k] >> \o Mismatches(res, frame, k + 1)
                  ELSE Mismatches(res, frame, k + 1))

\* Whether the loop over results is left by an exception: main()'s
\* `except Exception` logs "Fatal error" and raises it again
LoopRaises(res) ==
    \E k \in 1..Len(res) :
        ~IsArchive(res[k][2]) /\ compare_urls(res[k][1], res[k][2]).raised

\* ------------------------------------------------------------------------
\* The run
\* ------------------------------------------------------------------------

VARIABLES
    pc,             \* where main() is
    df1, df2,       \* the frames load_sheet_data returned
    common_ids,
    df1_filtered, df2_filtered,
    i,              \* offset of the current batch in verify_urls
    short_tasks, long_tasks,
    short_results,
    results,
    mismatches,
    prov,           \* history: for each entry of results, the positions in
                    \* urls1 and urls2 its two values were fetched from
    started,        \* history: the fetches that have been scheduled
    finished,       \* history: the fetches that have returned, with the value
    fn, args, out   \* a call of one of the pure functions outside a run:
                    \* its name, its arguments, and the values returned

run == << pc, df1, df2, common_ids, df1_filtered, df2_filtered, i,
          short_tasks, long_tasks, short_results, results, mismatches,
          prov, started, finished >>
pure == << fn, args, out >>
vars == << run, pure >>

urls1 == UrlList(df1_filtered)
urls2 == UrlList(df2_filtered)

LoadedSheets(urls) == UNION {load_sheet_data(raw) : raw \in RawSheets(urls)}

\* main() up to the end of the two load_sheet_data calls
Init ==
    /\ pc = "start"
    /\ df1 \in LoadedSheets(Urls1)
    /\ df2 \in LoadedSheets(Urls2)
    /\ common_ids = {}
    /\ df1_filtered = << >>
    /\ df2_filtered = << >>
    /\ i = 0
    /\ short_tasks = << >>
    /\ long_tasks = << >>
    /\ short_results = << >>
    /\ results = << >>
    /\ mismatches = << >>
    /\ prov = << >>
    /\ started = {}
    /\ finished = {}
    /\ fn = "none"
    /\ args = << >>
    /\ out = << >>

\* main(): common ids, the early return, filtering and sorting
Align ==
    /\ pc = "start"
    /\ common_ids' = CommonIds(df1, df2)
    /\ IF NoCommonIds(common_ids')
       THEN /\ pc' = "no_overlap"
            /\ UNCHANGED << df1_filtered, df2_filtered >>
       ELSE /\ pc' = "loop"
            /\ df1_filtered' \in sort_values(isin(df1, common_ids'))
            /\ df2_filtered' \in sort_values(isin(df2, common_ids'))
    /\ UNCHANGED << df1, df2, i, short_tasks, long_tasks, short_results,
                    results, mismatches, prov, started, finished >>
    /\ UNCHANGED pure

\* verify_urls: one iteration of the batch loop up to the first await
BatchStart ==
    /\ pc = "loop"
    /\ i < Len(urls1)
    /\ short_tasks' = Schedule(MakeTasks(urls1, SliceLo(i), SliceHi(urls1, i),
                                         "created", i \div batch_size))
    /\ long_tasks' = MakeTasks(urls2, SliceLo(i), SliceHi(urls2, i),
                               "created", i \div batch_size)
    /\ started' = started \cup FetchIds("short", short_tasks')
    /\ pc' = "gather_short"
    /\ UNCHANGED << df1, df2, common_ids, df1_filtered, df2_filtered, i,
                    short_results, results, mismatches, prov, finished >>
    /\ UNCHANGED pure

\* The tasks of the gather that is being awaited
Awaited == IF pc = "gather_short" THEN short_tasks ELSE long_tasks
AwaitedList == IF pc = "gather_short" THEN "short" ELSE "long"

SetAwaited(ts) ==
    IF pc = "gather_short"
    THEN short_tasks' = ts /\ UNCHANGED long_tasks
    ELSE long_tasks' = ts /\ UNCHANGED short_tasks

\* session.get: the connector hands the request a connection
Acquire(k) ==
    /\ pc \in {"gather_short", "gather_long"}
    /\ k \in 1..Len(Awaited)
    /\ Awaited[k].state = "waiting"
    /\ CanAcquire(OpenCount(Awaited))
    /\ SetAwaited([Awaited EXCEPT ![k].state = "open"])
    /\ UNCHANGED << pc, df1, df2, common_ids, df1_filtered, df2_filtered, i,
                    short_results, results, mismatches, prov, started, finished >>
    /\ UNCHANGED pure

\* fetch_url returns a value and the connection, if any, is released
Return(k, outcome, status, final) ==
    LET t == Awaited[k]
        v == fetch_url(t.url, outcome, status, final)
    IN  /\ SetAwaited([Awaited EXCEPT ![k].state = "done",
                                      ![k].failed = (outcome # "ok"),
                                      ![k].result = v])
        /\ finished' = finished \cup
               {[list |-> AwaitedList, src |-> t.src, batch |-> t.batch,
                 status |-> status, result |-> v]}
        /\ UNCHANGED << pc, df1, df2, common_ids, df1_filtered, df2_filtered, i,
                        short_results, results, mismatches, prov, started >>
        /\ UNCHANGED pure

\* The response arrives (any status): fetch_url returns str(response.url)
Respond(k) ==
    /\ pc \in {"gather_short", "gather_long"}
    /\ k \in 1..Len(Awaited)
    /\ Awaited[k].state = "open"
    /\ \E final \in Redirects(Awaited[k].url), status \in Statuses(Awaited[k].url) :
           Return(k, "ok", status, final)

\* A timeout that only runs once the request holds a connection
FailOnlyOpen(k) ==
    /\ pc \in {"gather_short", "gather_long"}
    /\ k \in 1..Len(Awaited)
    /\ Awaited[k].state = "open"
    /\ \E outcome \in {"timeout", "error"} : Return(k, outcome, NoResponse, << >>)

\* asyncio.TimeoutError or any other Exception inside session.get, while the
\* request waits for a connection or holds one
Fail(k) ==
    /\ pc \in {"gather_short", "gather_long"}
    /\ k \in 1..Len(Awaited)
    /\ Awaited[k].state \in {"waiting", "open"}
    /\ \E outcome \in {"timeout", "error"} : Return(k, outcome, NoResponse, << >>)

\* `short_results = await asyncio.gather(*short_tasks)` returns and
\* `await asyncio.gather(*long_tasks)` schedules the long fetches
GatherShortDone ==
    /\ pc = "gather_short"
    /\ GatherReady(short_tasks)
    /\ short_results' = GatherValues(short_tasks)
    /\ long_tasks' = Schedule(long_tasks)
    /\ started' = started \cup FetchIds("long", long_tasks)
    /\ pc' = "gather_long"
    /\ UNCHANGED << df1, df2, common_ids, df1_filtered, df2_filtered, i,
                    short_tasks, results, mismatches, prov, finished >>
    /\ UNCHANGED pure

\* `long_results = await asyncio.gather(*long_tasks)` returns, results.extend
\* and the end of the iteration
GatherLongDone ==
    /\ pc = "gather_long"
    /\ GatherReady(long_tasks)
    /\ results' = results \o ResultPairs(short_results, GatherValues(long_tasks))
    /\ prov' = prov \o Zip(GatherSrcs(short_tasks), GatherSrcs(long_tasks))
    /\ i' = i + batch_size
    /\ short_tasks' = << >>
    /\ long_tasks' = << >>
    /\ short_results' = << >>
    /\ pc' = "loop"
    /\ UNCHANGED << df1, df2, common_ids, df1_filtered, df2_filtered,
                    mismatches, started, finished >>
    /\ UNCHANGED pure

\* The range of the batch loop is exhausted: verify_urls returns results and
\* main() builds mismatches in its loop over results, and goes on to the
\* summary unless the loop raised
ProcessResults ==
    /\ pc = "loop"
    /\ i >= Len(urls1)
    /\ mismatches' = Mismatches(results, df1_filtered, 1)
    /\ pc' = IF LoopRaises(results) THEN "fatal" ELSE "done"
    /\ UNCHANGED << df1, df2, common_ids, df1_filtered, df2_filtered, i,
                    short_tasks, long_tasks, short_results, results, prov,
                    started, finished >>
    /\ UNCHANGED pure

Next ==
    \/ Align
    \/ BatchStart
    \/ \E k \in 1..batch_size : Acquire(k)
    \/ \E k \in 1..batch_size : Respond(k)
    \/ \E k \in 1..batch_size : Fail(k)
    \/ GatherShortDone
    \/ GatherLongDone
    \/ ProcessResults

Spec == Init /\ [][Next]_vars

\* ------------------------------------------------------------------------
\* Runs over sheets with dead links and malformed cells
\* ------------------------------------------------------------------------

NetUrls1 == {ShortUrl, GoneUrl, BadUrl}
NetUrls2 == {LongUrl, GoneUrl}

\* Loaded sheets of MaxRows rows with the ids 1, 2, ... in order
NetSheets(urls) ==
    {[k \in 1..MaxRows |-> [id |-> k, url |-> u[k]]] : u \in [1..MaxRows -> urls]}

\* main() up to the end of the two load_sheet_data calls, the url cells
\* of the two sheets drawn from cells1 and cells2
SheetsInit(cells1, cells2) ==
    /\ pc = "start"
    /\ df1 \in NetSheets(cells1)
    /\ df2 \in NetSheets(cells2)
    /\ common_ids = {}
    /\ df1_filtered = << >>
    /\ df2_filtered = << >>
    /\ i = 0
    /\ short_tasks = << >>
    /\ long_tasks = << >>
    /\ short_results = << >>
    /\ results = << >>
    /\ mismatches = << >>
    /\ prov = << >>
    /\ started = {}
    /\ finished = {}
    /\ fn = "none"
    /\ args = << >>
    /\ out = << >>

NetInit == SheetsInit(NetUrls1, NetUrls2)

SpecNet == NetInit /\ [][Next]_vars

\* A step of main() or verify_urls outside the fetches
ProgramStep ==
    \/ Align
    \/ BatchStart
    \/ GatherShortDone
    \/ GatherLongDone
    \/ ProcessResults

\* The event loop runs the program whenever it can run, and the session's
\* ClientTimeout(total=10) ends every request, while it waits for a
\* connection or holds one, with a response or a TimeoutError.
Fairness ==
    /\ WF_vars(ProgramStep)
    /\ \A k \in 1..batch_size : WF_vars(Respond(k) \/ Fail(k))

\* The runs of SpecNet in which every cell of sheet B is the long URL
LiveInit == SheetsInit(NetUrls1, {LongUrl})

SpecLive == LiveInit /\ [][Next]_vars /\ Fairness

\* ------------------------------------------------------------------------
\* The canonicalizer and the comparator called on their own
\* ------------------------------------------------------------------------

\* An absolute URL written out from its parts; rest is what follows the
\* path ("?" and a query, "#" and a fragment)
MkUrl(host, path, rest) == <<"https", ":", "/", "/", host>> \o path \o rest

\* Query strings: tracking keys in several letter cases, kept keys, a key
\* with two values
Queries ==
    {<< >>,
     <<"utm_source", "=", "x">>,
     <<"UTM_SOURCE", "=", "x">>,
     <<"hsCtaTracking", "=", "x">>,
     <<"HSCTATRACKING", "=", "x">>,
     <<"_BRANCH_match_id", "=", "x">>,
     <<"a", "=", "1", "&", "a", "=", "2">>,
     <<"a", "=", "1", "&", "utm_source", "=", "x", "&", "a", "=", "2">>,
     <<"b", "=", "&", "fbclid", "=", "x">>}

\* What may follow the query: nothing, or "#" and a fragment
Fragments == {<< >>, <<"#">>, <<"#", "frag">>, <<"#", "/">>}

\* What may follow the path
Rests ==
    {(IF q = << >> THEN << >> ELSE <<"?">> \o q) \o f : q \in Queries, f \in Fragments}

\* Paths given to normalize_url_path
Paths ==
    {<< >>, <<"/">>, <<"/", "/">>,
     <<"/", "foo">>, <<"/", "foo", "/">>, <<"/", "foo", "/", "/">>,
     <<"/", "cl", "/", "s">>,
     <<"/", "foo", "/", "cl", "/", "s">>,
     <<"/", "foo", "/", "cl", "/", "s", "/">>,
     <<"/", "foo", "/", "cl", "/", "s", "/", "/">>,
     <<"/", "foo", "/", "cl", "/", "s", "/", "cl", "/", "s">>,
     <<"/", "foo", "/", "/", "cl", "/", "s">>,
     <<"/", "foo", "/", "s">>,
     <<"/", "Foo", "/", "CL", "/", "S">>}

\* Strings given to strip_tracking_params: URLs, with blank and malformed ones
CanonInputs ==
    {MkUrl("example.com", p, r) :
        p \in {<< >>, <<"/">>, <<"/", "page">>, <<"/", "page", "/">>}, r \in Rests}
    \cup {Blank, White, BadUrl}

\* The parts of the URLs given to compare_urls
CmpHosts == {"example.com", "Example.com", "other.org"}
CmpPaths == {<<"/", "foo">>, <<"/", "Foo", "/">>, <<"/", "foo", "/", "cl", "/", "s">>,
             <<"/", "old">>}
CmpRests == {<< >>, <<"?", "a", "=", "1">>, <<"#", "frag">>,
             <<"?", "utm_source", "=", "x", "#", "/">>}
CmpInputs == {MkUrl(h, p, r) : h \in CmpHosts, p \in CmpPaths, r \in CmpRests}

\* No run: the arguments of one call are drawn
PureInit ==
    /\ pc = "idle"
    /\ df1 = << >>
    /\ df2 = << >>
    /\ common_ids = {}
    /\ df1_filtered = << >>
    /\ df2_filtered = << >>
    /\ i = 0
    /\ short_tasks = << >>
    /\ long_tasks = << >>
    /\ short_results = << >>
    /\ results = << >>
    /\ mismatches = << >>
    /\ prov = << >>
    /\ started = {}
    /\ finished = {}
    /\ fn = "none"
    /\ args \in {<<u>> : u \in CanonInputs \cup Paths} \cup (CmpInputs \X CmpInputs)
    /\ out = << >>

\* strip_tracking_params(u)
Canonicalize ==
    /\ fn = "none"
    /\ Len(args) = 1
    /\ fn' = "strip_tracking_params"
    /\ out' = << strip_tracking_params(args[1]) >>
    /\ UNCHANGED << run, args >>

\* strip_tracking_params applied to the value it returned
CanonicalizeAgain ==
    /\ fn = "strip_tracking_params"
    /\ Len(out) = 1
    /\ out' = Append(out, strip_tracking_params(out[1]))
    /\ UNCHANGED << run, fn, args >>

\* normalize_url_path(p)
Normalize ==
    /\ fn = "none"
    /\ Len(args) = 1
    /\ fn' = "normalize_url_path"
    /\ out' = << normalize_url_path(args[1]) >>
    /\ UNCHANGED << run, args >>

\* compare_urls(url1, url2)
Compare ==
    /\ fn = "none"
    /\ Len(args) = 2
    /\ fn' = "compare_urls"
    /\ out' = << compare_urls(args[1], args[2]) >>
    /\ UNCHANGED << run, args >>

PureNext ==
    \/ Canonicalize
    \/ CanonicalizeAgain
    \/ Normalize
    \/ Compare

SpecPure == PureInit /\ [][PureNext]_vars

\* ------------------------------------------------------------------------
\* Properties
\* ------------------------------------------------------------------------

\* verify_urls has returned
Returned == pc = "done"

NonBlank(url) == strip(url) # << >>

Frame(list) == IF list = "short" THEN df1_filtered ELSE df2_filtered

\* The values fetches of position k of a list have returned
FetchedValues(list, k) == {f.result : f \in {g \in finished : g.list = list /\ g.src = k}}

HasFinished(list, k) == \E f \in finished : f.list = list /\ f.src = k

\* What position k of a list resolves to: a blank entry passes through
\* as it is, any other entry is what its fetch returned
Resolved(list, k) ==
    IF NonBlank(Frame(list)[k].url)
    THEN CHOOSE v \in FetchedValues(list, k) : TRUE
    ELSE Frame(list)[k].url

IsResolved(list, k) == NonBlank(Frame(list)[k].url) => HasFinished(list, k)

\* The host of url contains web.archive.org
HostIsArchive(url) == Contains(urlparse(url).netloc, "web.archive.org")

BatchOf(k) == (k - 1) \div batch_size

\* Number of completed results.extend calls
Collected == i \div batch_size

\* The two filtered frames are aligned: equal length, unique ids, and the
\* same id at every position
FramesAligned ==
    /\ Len(df1_filtered) = Len(df2_filtered)
    /\ \A a, b \in 1..Len(df1_filtered) :
          df1_filtered[a].id = df1_filtered[b].id => a = b
    /\ \A a, b \in 1..Len(df2_filtered) :
          df2_filtered[a].id = df2_filtered[b].id => a = b
    /\ \A k \in 1..Len(df1_filtered) :
          k <= Len(df2_filtered) /\ df1_filtered[k].id = df2_filtered[k].id

\* C1: for two lists of equal length, verify_urls returns one result per
\* input position and the result at position k comes from position k of
\* both lists, blank entries included.
C1_OneResultPerPosition ==
    (Returned /\ Len(urls1) = Len(urls2)) =>
        /\ Len(results) = Len(urls1)
        /\ \A k \in 1..Len(results) : prov[k] = << k, k >>

\* C2: when the frames are aligned, every MismatchRecord carries the id of
\* the pair that was compared: its url1 was fetched from the row of sheet A
\* with that id and its url2 from the row of sheet B with that id.
C2_RecordIdIsComparedPair ==
    FramesAligned =>
        \A n \in 1..Len(mismatches) :
            LET m == mismatches[n]
            IN  /\ df1_filtered[prov[m.pos][1]].id = m.id
                /\ df2_filtered[prov[m.pos][2]].id = m.id

\* C3: after filtering and sorting, the two aligned frames have equal
\* length, unique ids, and the same id at every position.
C3_FramesAligned == pc \notin {"start", "no_overlap"} => FramesAligned

C5_EveryMismatchReported ==
    (pc = "done" /\ FramesAligned) =>
        \A k \in 1..Min(Len(df1_filtered), Len(df2_filtered)) :
            LET url1 == strip_tracking_params(Resolved("short", k))
                url2 == Resolved("long", k)
                c == compare_urls(url1, url2)
            IN  (/\ df1_filtered[k].id = df2_filtered[k].id
                 /\ IsResolved("short", k)
                 /\ IsResolved("long", k)
                 /\ ~IsArchive(url2)
                 /\ ~c.matches)
                => Cardinality({n \in 1..Len(mismatches) :
                        /\ mismatches[n].id = df1_filtered[k].id
                        /\ mismatches[n].url1 = url1
                        /\ mismatches[n].url2 = url2
                        /\ mismatches[n].details = c.details}) = 1

\* C6: a fetch that times out or raises returns its own url unchanged; the
\* other fetches still return a URL of their own request, and every
\* non-blank entry of every batch has been fetched when verify_urls returns.
C6_FailOpen ==
    /\ \A ts \in {short_tasks, long_tasks} : \A k \in 1..Len(ts) :
          (ts[k].state = "done" /\ ts[k].failed) => ts[k].result = ts[k].url
    /\ \A f \in finished :
          f.result \in Redirects(Frame(f.list)[f.src].url) \cup {Frame(f.list)[f.src].url}
    /\ Returned =>
          /\ i >= Len(urls1)
          /\ \A k \in 1..Len(urls1) : NonBlank(urls1[k]) => HasFinished("short", k)
          /\ \A k \in 1..Len(urls2) :
                (NonBlank(urls2[k]) /\ BatchOf(k) * batch_size < Len(urls1))
                    => HasFinished("long", k)

\* C6 witness: the run has ended, a fetch of the first batch failed open,
\* another fetch of the same batch succeeded and a fetch of the second
\* batch succeeded.
C6_Witness ==
    /\ pc = "done"
    /\ \E f, g, h \in finished :
          /\ f.list = "short" /\ f.batch = 0 /\ f.result = ShortUrl
          /\ g.list = "short" /\ g.batch = 0 /\ g.result = PageTracked
          /\ h.list = "short" /\ h.batch = 1 /\ h.result = PageTracked

\* C7: the connections handed out never exceed the connector's limit.
C7_ConnectionCap == OpenCount(short_tasks) + OpenCount(long_tasks) <= limit

\* C7 witness: the limit is reached while another fetch waits for a connection
C7_Witness ==
    /\ pc \in {"gather_short", "gather_long"}
    /\ OpenCount(Awaited) = limit
    /\ \E k \in 1..Len(Awaited) : Awaited[k].state = "waiting"

\* C8: when a fetch of a batch has been started, every non-blank entry of
\* both lists in every earlier batch has been fetched to completion and the
\* results of that batch have been collected.
C8_BatchesSequential ==
    \A t \in started :
        \A list \in {"short", "long"} :
            \A k \in 1..Len(Frame(list)) :
                (BatchOf(k) < t.batch /\ NonBlank(Frame(list)[k].url))
                    => /\ HasFinished(list, k)
                       /\ Collected > BatchOf(k)

\* C8 witness: a fetch of the second batch is in flight after fetches of
\* both lists in the first batch
C8_Witness ==
    /\ pc = "gather_short"
    /\ \E t \in started : t.batch = 1
    /\ \E u \in started : u.batch = 0 /\ u.list = "short"
    /\ \E u \in started : u.batch = 0 /\ u.list = "long"

\* C9: every fetch, every compared pair and every MismatchRecord belongs to
\* an id present in both sheets.
C9_OnlyCommonIds ==
    LET both == IdSet(df1) \cap IdSet(df2)
    IN  /\ \A t \in started : Frame(t.list)[t.src].id \in both
        /\ \A k \in 1..Len(prov) :
              /\ df1_filtered[prov[k][1]].id \in both
              /\ df2_filtered[prov[k][2]].id \in both
        /\ \A n \in 1..Len(mismatches) : mismatches[n].id \in both

\* C9 witness: a finished run with a mismatch where sheet A holds an id
\* that sheet B lacks
C9_Witness ==
    /\ pc = "done"
    /\ IdSet(df1) \ IdSet(df2) # {}
    /\ started # {}
    /\ mismatches # << >>

\* C10: when the sheets share no id the run ends in the no-overlap
\* condition with no fetch, no result and no MismatchRecord.
C10_NoOverlap ==
    (pc # "start" /\ IdSet(df1) \cap IdSet(df2) = {}) =>
        /\ pc = "no_overlap"
        /\ started = {}
        /\ results = << >>
        /\ mismatches = << >>

\* C10 witness: two non-empty sheets without a common id after the check
C10_Witness ==
    /\ pc = "no_overlap"
    /\ df1 # << >>
    /\ df2 # << >>

\* C11: canonicalization is idempotent: applying strip_tracking_params to
\* the value it returned gives that value again.
C11_Idempotent ==
    (fn = "strip_tracking_params" /\ Len(out) = 2) => out[2] = out[1]

\* A key of the tracking set written in any letter case
TrackingKeyAnyCase(k) == \E t \in tracking_params : Lower(k) = Lower(<<t>>)

\* The (key, value) pairs of the query string of a URL
QueryPairs(url) == parse_qsl(urlparse(url).query)

\* C12: the canonicalized URL has no query parameter whose key is a
\* tracking key in any letter case, and every other parameter of the input
\* is there with all its values.
C12_TrackingKeysRemoved ==
    (fn = "strip_tracking_params" /\ Len(out) >= 1 /\ ~urlparse(args[1]).invalid) =>
        LET before == QueryPairs(args[1])
            after == QueryPairs(out[1])
        IN  /\ \A n \in 1..Len(after) : ~TrackingKeyAnyCase(after[n][1])
            /\ \A n \in 1..Len(before) :
                  ~TrackingKeyAnyCase(before[n][1]) =>
                      SelectSeq(after, LAMBDA q : q[1] = before[n][1])
                          = SelectSeq(before, LAMBDA q : q[1] = before[n][1])

\* C13: compare_urls gives "URLs match" exactly when the hosts are the same
\* string and the normalized paths are equal ignoring case, "Different
\* domains" whenever the hosts differ, "Different paths" otherwise; what
\* follows the path (query string, fragment) has no part in the result.
C13_CompareByHostAndPath ==
    fn = "compare_urls" =>
        \A h1 \in CmpHosts, h2 \in CmpHosts, p1 \in CmpPaths, p2 \in CmpPaths :
            (\E r1 \in CmpRests, r2 \in CmpRests :
                args = << MkUrl(h1, p1, r1), MkUrl(h2, p2, r2) >>) =>
                LET sameHost == h1 = h2
                    samePath == Lower(normalize_url_path(p1)) = Lower(normalize_url_path(p2))
                IN  /\ ~out[1].raised
                    /\ out[1].matches <=> (sameHost /\ samePath)
                    /\ out[1].details =
                          IF ~sameHost THEN "Different domains"
                          ELSE IF ~samePath THEN "Different paths"
                          ELSE "URLs match"

\* C13 witness: two URLs of one host whose paths differ in case and in a
\* trailing slash and whose query and fragment differ have been compared
\* and match
C13_Witness ==
    /\ fn = "compare_urls"
    /\ args = << MkUrl("example.com", <<"/", "foo">>, <<"?", "a", "=", "1">>),
                 MkUrl("example.com", <<"/", "Foo", "/">>, <<"#", "frag">>) >>
    /\ out[1].matches
    /\ out[1].details = "URLs match"

\* C14: normalize_url_path(p) is p without its trailing slashes and then
\* without one /cl/s suffix if the remainder ends with it; "/foo/cl/s/"
\* gives "/foo".
C14_NormalizePath ==
    fn = "normalize_url_path" =>
        LET p == args[1]
            n == CHOOSE m \in 0..Len(p) :
                     /\ m = 0 \/ p[m] # "/"
                     /\ \A k \in (m + 1)..Len(p) : p[k] = "/"
            q == SubSeq(p, 1, n)
            suffixed == n >= 4 /\ SubSeq(q, n - 3, n) = <<"/", "cl", "/", "s">>
        IN  /\ out[1] = IF suffixed THEN SubSeq(q, 1, n - 4) ELSE q
            /\ p = <<"/", "foo", "/", "cl", "/", "s", "/">> => out[1] = <<"/", "foo">>

\* C14 witness: a path with two /cl/s suffixes has lost the last one only
C14_Witness ==
    /\ fn = "normalize_url_path"
    /\ args = << <<"/", "foo", "/", "cl", "/", "s", "/", "cl", "/", "s">> >>
    /\ out = << <<"/", "foo", "/", "cl", "/", "s">> >>

\* urlparse raises on url
Malformed(url) == urlparse(url).invalid

\* C15: a URL that cannot be parsed never aborts the run: the canonicalizer
\* hands it on unchanged, the run does not end in the fatal error, and at
\* the end of the run every pair holding such a URL (and not exempted as
\* archived) is reported as a mismatch.
C15_ParseFailureRecovered ==
    /\ \A n \in 1..Len(results) :
          Malformed(Resolved("short", prov[n][1]))
              => results[n][1] = Resolved("short", prov[n][1])
    /\ pc # "fatal"
    /\ pc = "done" =>
          \A n \in 1..Len(results) :
              (/\ ~IsArchive(results[n][2])
               /\ Malformed(results[n][1]) \/ Malformed(results[n][2]))
                  => \E m \in 1..Len(mismatches) : mismatches[m].pos = n

\* C16: in every result pair the first element is the canonicalized value
\* of the fetch of the A URL and the second element is the value of the
\* fetch of the B URL as returned.
C16_CanonicalizeAOnly ==
    \A n \in 1..Len(results) :
        /\ results[n][1] = strip_tracking_params(Resolved("short", prov[n][1]))
        /\ results[n][2] = Resolved("long", prov[n][2])

\* C16 witness: a pair whose two fetches ended at the same URL with a
\* trailing slash and a tracking parameter: cleaned on the A side, kept on
\* the B side
C16_Witness ==
    \E n \in 1..Len(results) :
        /\ Resolved("short", prov[n][1]) = PageTracked
        /\ results[n][1] = <<"https", ":", "/", "/", "example.com", "/", "page">>
        /\ results[n][2] = PageTracked

\* The fetches that ended with a response whose status is not 2xx
NonSuccess == {f \in finished : f.status # NoResponse /\ ~(f.status \in 200..299)}

\* C17: a fetch answered with a non-2xx status returns the final URL of the
\* response, and at the end of the run its pair has been compared: it is
\* in results and, if it is not exempted and does not match, in mismatches.
C17_StatusIsNotFailure ==
    \A f \in NonSuccess :
        /\ f.result \in Redirects(Frame(f.list)[f.src].url)
        /\ pc = "done" =>
              \E n \in 1..Len(results) :
                  /\ prov[n][IF f.list = "short" THEN 1 ELSE 2] = f.src
                  /\ results[n][IF f.list = "short" THEN 1 ELSE 2] =
                        (IF f.list = "short" THEN strip_tracking_params(f.result)
                         ELSE f.result)
                  /\ (/\ ~IsArchive(results[n][2])
                      /\ ~compare_urls(results[n][1], results[n][2]).matches)
                        => \E m \in 1..Len(mismatches) : mismatches[m].pos = n

\* C17 witness: the run has ended; a fetch of sheet A was answered 404 at
\* the end of a redirect and its pair, with the redirect's target, is
\* reported as a mismatch
C17_Witness ==
    /\ pc = "done"
    /\ \E f \in NonSuccess :
          /\ f.list = "short"
          /\ f.status = 404
          /\ f.result = PageTracked
          /\ f.result # Frame(f.list)[f.src].url
          /\ \E m \in 1..Len(mismatches) :
                /\ prov[mismatches[m].pos][1] = f.src
                /\ mismatches[m].url1 = strip_tracking_params(PageTracked)

\* verify_urls has returned results to main()
VerifyReturned == pc \in {"done", "fatal"}

\* Every fetch that was started has returned a value
AllResolved == \A t \in started : HasFinished(t.list, t.src)

\* The run has come to its end: every started fetch has returned a value,
\* every batch has been collected, and verify_urls has returned with a
\* result for every row
Terminated ==
    /\ VerifyReturned
    /\ AllResolved
    /\ Collected * batch_size >= MaxRows
    /\ Len(results) = MaxRows

\* C18: every run terminates: every started fetch eventually returns a
\* value, every batch is eventually collected and verify_urls eventually
\* returns after the last batch.
C18_Terminates == <>Terminated

\* C18 witness: a run of two batches has ended in which one fetch timed out
\* or raised and another got its response
C18_Witness ==
    /\ VerifyReturned
    /\ Collected = 2
    /\ \E f, g \in finished : f.status = NoResponse /\ g.status = 200

\* Fetches of a task list that have been started and have not returned
Outstanding(ts) ==
    Cardinality({k \in 1..Len(ts) : ts[k].state \in {"waiting", "open"}})

\* C19: the fetches started and not yet completed are never more than
\* batch_size; fetches of the two lists are never in flight together, and
\* when a fetch of list B has been started every fetch of list A in the
\* same batch has completed.
C19_OutstandingBound ==
    /\ Outstanding(short_tasks) + Outstanding(long_tasks) <= batch_size
    /\ Outstanding(short_tasks) = 0 \/ Outstanding(long_tasks) = 0
    /\ \A t \in started :
          t.list = "long" =>
              \A u \in started :
                  (u.list = "short" /\ u.batch = t.batch) => HasFinished("short", u.src)

\* C19 witness: a full slice of list B is in flight after a full slice of
\* list A has completed
C19_Witness ==
    /\ pc = "gather_long"
    /\ Outstanding(long_tasks) = batch_size
    /\ Len(short_tasks) = batch_size
    /\ \A k \in 1..Len(short_tasks) : short_tasks[k].state = "done"

====
